---- MODULE Spec2Model ----
(***************************************************************************)
(* Model of examples/model_compression/pp-minilm/inference/infer.py:       *)
(* Predictor.create_predictor (engine configuration) and Predictor.predict *)
(* (batch slicing, warmup pass, timed pass, accuracy pass).                *)
(***************************************************************************)
EXTENDS Integers, Sequences, FiniteSets, TLC

\* ---------------------------------------------------------------- bounds
MaxN == 3          \* largest dataset size explored
MaxB == 2          \* largest batch size explored
MaxWarm == 1       \* largest perf_warmup_steps explored besides the default
MaxRawLen == 3     \* longest tokenized example before truncation
MaxSeqLen == 2     \* largest max_seq_length explored

VARIABLES
    args,          \* parsed command line (immutable after main() lowercases)
    tokenizer,     \* the tokenizer's declared pad values
    dataset,       \* dev_ds: sequence of raw examples
    pc,            \* position inside main() / create_predictor / predict
    config,        \* calls made on paddle.inference.Config, in order
    batches,       \* predict: the list of slices
    it,            \* number of items the running for-loop has consumed
    i,             \* enumerate index (Python local, survives the loop); -1 unbound
    examples,      \* Python local `examples`; <<>> while unbound
    input_ids,     \* Python local
    segment_ids,   \* Python local
    label,         \* Python local
    output,        \* Python local
    time1,         \* Python local: logical clock value at time.time(); -1 unset
    metric,        \* metric object: [made, resets, updates, reads]
    trace          \* every externally visible step so far, in order

vars == <<args, tokenizer, dataset, pc, config, batches, it, i, examples,
          input_ids, segment_ids, label, output, time1, metric, trace>>

\* ------------------------------------------------------------- helpers
Min(a, b) == IF a < b THEN a ELSE b

Max(a, b) == IF a < b THEN b ELSE a

RECURSIVE SeqMax(_)
SeqMax(s) == IF s = <<>> THEN 0 ELSE Max(Head(s), SeqMax(Tail(s)))

Repeat(v, n) == [j \in 1..n |-> v]

\* Python range(start, stop, step) for step >= 1, as a sequence
RECURSIVE Range(_, _, _)
Range(start, stop, step) ==
    IF start >= stop THEN <<>> ELSE <<start>> \o Range(start + step, stop, step)

\* Python s[lo:hi] for 0 <= lo <= hi (hi clipped to len(s))
PySlice(s, lo, hi) == SubSeq(s, Min(lo, Len(s)) + 1, Min(hi, Len(s)))

\* one event of the trace
Ev(op, phase, k, ids, segs, lab, out) ==
    [op |-> op, phase |-> phase, k |-> k, ids |-> ids, segs |-> segs,
     lab |-> lab, out |-> out]

\* logical clock read by time.time()
Clock == Len(trace)

\* ------------------------------------------------ tokenizer and examples
Tokenizers == {[pad_token_id |-> 0, pad_token_type_id |-> 0],
               [pad_token_id |-> 5, pad_token_type_id |-> 3]}

\* raw example number id (0-based position in the dataset) with n tokens
Example(id, n) == [id |-> id, n |-> n, label |-> (id + n) % 2]

\* the tokens the tokenizer produces for an example, before truncation
RawTokens(ex) == [j \in 1..ex.n |-> 10 * (ex.id + 1) + j]

\* segment ids before truncation: first token segment 1, the rest segment 2
RawSegments(ex) == [j \in 1..ex.n |-> IF j = 1 THEN 1 ELSE 2]

\* data.convert_example: tokenise, truncate to max_seq_length, attach label
convert_example(ex, max_seq_length) ==
    <<SubSeq(RawTokens(ex), 1, Min(ex.n, max_seq_length)),
      SubSeq(RawSegments(ex), 1, Min(ex.n, max_seq_length)),
      ex.label>>

\* variant: the cap handed to convert_example is one too large
convert_predict_batch_NoCap(a, data) ==
    [e \in 1..Len(data) |-> convert_example(data[e], a.max_seq_length + 1)]

\* Predictor.convert_predict_batch: convert every example of the slice
convert_predict_batch(a, data) ==
    [e \in 1..Len(data) |-> convert_example(data[e], a.max_seq_length)]

\* paddlenlp.data.Pad(axis=0, pad_val): pad every row to the longest row
Pad(pad_val, rows) ==
    [r \in 1..Len(rows) |->
        rows[r] \o Repeat(pad_val, SeqMax([q \in 1..Len(rows) |-> Len(rows[q])])
                                   - Len(rows[r]))]

\* paddlenlp.data.Stack: the labels as one vector
Stack(xs) == xs

\* main's batchify_fn = Tuple(Pad(pad_token_id), Pad(pad_token_type_id), Stack)
batchify_fn(tok, samples) ==
    <<Pad(tok.pad_token_id, [s \in 1..Len(samples) |-> samples[s][1]]),
      Pad(tok.pad_token_type_id, [s \in 1..Len(samples) |-> samples[s][2]]),
      Stack([s \in 1..Len(samples) |-> samples[s][3]])>>

\* the engine's forward pass: one opaque logit per row, a function of the inputs
ModelForward(ids, segs) == [r \in 1..Len(ids) |-> ids[r][1] + segs[r][1]]

\* variant: the range stops where a full batch no longer fits
Batches_NoRemainder(ds, B) ==
    [k \in 1..Len(Range(0, Len(ds) - B + 1, B)) |->
        PySlice(ds, Range(0, Len(ds) - B + 1, B)[k],
                Range(0, Len(ds) - B + 1, B)[k] + B)]

\* predict: batches = [dataset[idx:idx+B] for idx in range(0, len(dataset), B)]
Batches(ds, B) ==
    [k \in 1..Len(Range(0, Len(ds), B)) |->
        PySlice(ds, Range(0, Len(ds), B)[k], Range(0, Len(ds), B)[k] + B)]

\* variant: the break test counts steps from one
WarmupBreak_OffByOne(idx, warm) == idx + 1 >= warm

\* the warmup loop's break test: if i > args.perf_warmup_steps
WarmupBreak(idx, warm) == idx > warm

\* variant: the timed loop takes only the batches the warmup loop left over
TimedBatches_Remaining == SubSeq(batches, i + 2, Len(batches))

\* the list the timed loop iterates: for batch in batches
TimedBatches == batches

\* ------------------------------------------------------------- inputs
RECURSIVE Datasets(_)
Datasets(n) ==
    IF n = 0 THEN {<<>>}
    ELSE {Append(d, Example(n - 1, len)) :
            d \in {x \in Datasets(n - 1) : Len(x) = n - 1}, len \in 1..MaxRawLen}
         \cup Datasets(n - 1)

TaskNames == {"afqmc", "TNEWS"}

\* str.lower() on the task names explored
Lower(s) == IF s = "TNEWS" THEN "tnews" ELSE s

ModelPaths == {<<"model">>, <<"quant_models", "model">>}

Devices == {"gpu", "cpu", "xpu"}

\* parse_args: --perf_warmup_steps default
DefaultWarmup == 20

\* os.path.dirname of a path given as its components
Dirname(p) == SubSeq(p, 1, Len(p) - 1)

\* os.path.join(dir, file); a file name is the tuple of the strings concatenated
Join(dir, file) == [dir |-> dir, file |-> file]

NoPath == [dir |-> <<>>, file |-> <<>>]

NoMetric == [made |-> 0, resets |-> 0, updates |-> <<>>, reads |-> 0]

\* one call on the inference Config (or on paddle) made by create_predictor
Call(name, prec, nums, path) ==
    [call |-> name, prec |-> prec, nums |-> nums, path |-> path]

\* ------------------------------------------------- create_predictor
\* paddle.inference.Config(model_path + ".pdmodel", model_path + ".pdiparams")
NewConfigCalls(a) ==
    <<Call("Config", "", <<>>,
           Join(Dirname(a.model_path),
                <<a.model_path[Len(a.model_path)], ".pdmodel", ".pdiparams">>))>>

\* the device branch
DeviceCalls(a) ==
    IF a.device = "gpu"
    THEN <<Call("enable_use_gpu", "", <<100, 0>>, NoPath),
           Call("set_device", "gpu", <<>>, NoPath)>>
    ELSE IF a.device = "cpu"
    THEN <<Call("disable_gpu", "", <<>>, NoPath),
           Call("set_device", "cpu", <<>>, NoPath)>>
    ELSE IF a.device = "xpu"
    THEN <<Call("enable_xpu", "", <<100>>, NoPath)>>
    ELSE <<>>

\* if args.use_trt: enable_tensorrt_engine(Int8 | Float32), then the print
TrtCalls(a) ==
    IF a.use_trt
    THEN <<Call("enable_tensorrt_engine",
                IF a.int8 THEN "Int8" ELSE "Float32",
                <<a.batch_size, 5>>, NoPath),
           Call("tensorrt_engine_enabled", "", <<>>, NoPath)>>
    ELSE <<>>

\* variant: the tuning call is not in an else branch
ShapeCalls_NoElse(a) ==
    IF a.use_trt
    THEN (IF a.collect_shape
          THEN <<Call("collect_shape_range_info", "", <<>>,
                      Join(Dirname(a.model_path),
                           <<a.task_name, "_shape_range_info.pbtxt">>))>>
          ELSE <<>>)
         \o <<Call("enable_tuned_tensorrt_dynamic_shape", "True", <<>>,
                   Join(Dirname(a.model_path),
                        <<a.task_name, "_shape_range_info.pbtxt">>))>>
    ELSE <<>>

\* inside if args.use_trt: collect_shape_range_info | enable_tuned_tensorrt_dynamic_shape
ShapeCalls(a) ==
    IF a.use_trt
    THEN IF a.collect_shape
         THEN <<Call("collect_shape_range_info", "", <<>>,
                     Join(Dirname(a.model_path),
                          <<a.task_name, "_shape_range_info.pbtxt">>))>>
         ELSE <<Call("enable_tuned_tensorrt_dynamic_shape", "True", <<>>,
                     Join(Dirname(a.model_path),
                          <<a.task_name, "_shape_range_info.pbtxt">>))>>
    ELSE <<>>

\* paddle.inference.create_predictor(config) and the handle lookups
CreateCalls(a) == <<Call("create_predictor", "", <<>>, NoPath)>>

Args(task, path, dev, B, seqlen, warm, trt, perf, collect, int8) ==
    [task_name |-> task, model_path |-> path, device |-> dev, batch_size |-> B,
     max_seq_length |-> seqlen, perf_warmup_steps |-> warm, use_trt |-> trt,
     perf |-> perf, collect_shape |-> collect, int8 |-> int8]

\* the locals of predict before it starts
PredictLocalsInit ==
    /\ batches = <<>>
    /\ it = 0
    /\ i = -1
    /\ examples = <<>>
    /\ input_ids = <<>>
    /\ segment_ids = <<>>
    /\ label = <<>>
    /\ output = <<>>
    /\ time1 = -1
    /\ metric = NoMetric
    /\ trace = <<>>

PredictLocals == <<batches, it, i, examples, input_ids, segment_ids, label,
                   output, time1, metric, trace>>

\* state after parse_args(), before main() does anything else
InitCreate ==
    /\ args \in {Args(t, p, d, B, MaxSeqLen, DefaultWarmup, trt, FALSE, c, i8) :
                   t \in TaskNames, p \in ModelPaths, d \in Devices,
                   B \in 1..MaxB, trt \in BOOLEAN, c \in BOOLEAN, i8 \in BOOLEAN}
    /\ tokenizer \in Tokenizers
    /\ dataset = <<>>
    /\ pc = "main"
    /\ config = <<>>
    /\ PredictLocalsInit

\* main: args.task_name = args.task_name.lower()
MainLower ==
    /\ pc = "main"
    /\ args' = [args EXCEPT !.task_name = Lower(@)]
    /\ pc' = "cp_config"
    /\ UNCHANGED <<tokenizer, dataset, config, PredictLocals>>

CpConfig ==
    /\ pc = "cp_config"
    /\ config' = config \o NewConfigCalls(args)
    /\ pc' = "cp_device"
    /\ UNCHANGED <<args, tokenizer, dataset, PredictLocals>>

CpDevice ==
    /\ pc = "cp_device"
    /\ config' = config \o DeviceCalls(args)
    /\ pc' = "cp_trt"
    /\ UNCHANGED <<args, tokenizer, dataset, PredictLocals>>

CpTrt ==
    /\ pc = "cp_trt"
    /\ config' = config \o TrtCalls(args)
    /\ pc' = "cp_shape"
    /\ UNCHANGED <<args, tokenizer, dataset, PredictLocals>>

CpShape ==
    /\ pc = "cp_shape"
    /\ config' = config \o ShapeCalls(args)
    /\ pc' = "cp_create"
    /\ UNCHANGED <<args, tokenizer, dataset, PredictLocals>>

CpCreate ==
    /\ pc = "cp_create"
    /\ config' = config \o CreateCalls(args)
    /\ pc' = "cp_done"
    /\ UNCHANGED <<args, tokenizer, dataset, PredictLocals>>

NextCreate == MainLower \/ CpConfig \/ CpDevice \/ CpTrt \/ CpShape \/ CpCreate

SpecCreate == InitCreate /\ [][NextCreate]_vars

\* ------------------------------------------------------------ predict
\* state when main() calls predictor.predict(dev_ds, tokenizer, batchify_fn, args)
Init ==
    /\ args \in {Args(Lower(t), <<"quant_models", "model">>, "gpu", B, sl, w,
                      FALSE, pf, FALSE, FALSE) :
                   t \in {"afqmc"}, B \in 1..MaxB, sl \in 1..MaxSeqLen,
                   pf \in BOOLEAN, w \in 0..MaxWarm \cup {DefaultWarmup}}
    \* the accuracy path never reads perf_warmup_steps: keep its default there
    /\ args.perf \/ args.perf_warmup_steps = DefaultWarmup
    /\ tokenizer \in Tokenizers
    /\ dataset \in Datasets(MaxN)
    /\ pc = "predict"
    /\ config = NewConfigCalls(args) \o DeviceCalls(args) \o TrtCalls(args)
                \o ShapeCalls(args) \o CreateCalls(args)
    /\ PredictLocalsInit

NoSeq == <<>>

Log(e) == trace' = Append(trace, e)

\* lines 203-207: build the batch list, then branch once on args.perf
Slice ==
    /\ pc = "predict"
    /\ batches' = Batches(dataset, args.batch_size)
    /\ pc' = IF args.perf THEN "warm_loop" ELSE "metric_new"
    /\ UNCHANGED <<args, tokenizer, dataset, config, it, i, examples, input_ids,
                   segment_ids, label, output, time1, metric, trace>>

\* line 208: for i, batch in enumerate(batches)
WarmupNext ==
    /\ pc = "warm_loop"
    /\ IF it < Len(batches)
       THEN /\ i' = it
            /\ it' = it + 1
            /\ pc' = "warm_convert"
       ELSE /\ i' = i
            /\ it' = 0
            /\ pc' = "timer"
    /\ UNCHANGED <<args, tokenizer, dataset, config, batches, examples, input_ids,
                   segment_ids, label, output, time1, metric, trace>>

\* lines 209-210: examples = self.convert_predict_batch(args, batch, ...)
WarmupConvert ==
    /\ pc = "warm_convert"
    /\ examples' = convert_predict_batch(args, batches[i + 1])
    /\ Log(Ev("convert", "warmup", i, NoSeq, NoSeq, NoSeq, NoSeq))
    /\ pc' = "warm_batchify"
    /\ UNCHANGED <<args, tokenizer, dataset, config, batches, it, i, input_ids,
                   segment_ids, label, output, time1, metric>>

\* line 211: input_ids, segment_ids, label = batchify_fn(examples)
WarmupBatchify ==
    /\ pc = "warm_batchify"
    /\ input_ids' = batchify_fn(tokenizer, examples)[1]
    /\ segment_ids' = batchify_fn(tokenizer, examples)[2]
    /\ label' = batchify_fn(tokenizer, examples)[3]
    /\ Log(Ev("batchify", "warmup", i, input_ids', segment_ids', label', NoSeq))
    /\ pc' = "warm_run"
    /\ UNCHANGED <<args, tokenizer, dataset, config, batches, it, i, examples,
                   output, time1, metric>>

\* line 212: output = self.predict_batch([input_ids, segment_ids])
WarmupRun ==
    /\ pc = "warm_run"
    /\ output' = ModelForward(input_ids, segment_ids)
    /\ Log(Ev("run", "warmup", i, input_ids, segment_ids, NoSeq, output'))
    /\ pc' = "warm_check"
    /\ UNCHANGED <<args, tokenizer, dataset, config, batches, it, i, examples,
                   input_ids, segment_ids, label, time1, metric>>

\* lines 213-214: if i > args.perf_warmup_steps: break
WarmupCheck ==
    /\ pc = "warm_check"
    /\ IF WarmupBreak(i, args.perf_warmup_steps)
       THEN /\ Log(Ev("break", "warmup", i, NoSeq, NoSeq, NoSeq, NoSeq))
            /\ it' = 0
            /\ pc' = "timer"
       ELSE /\ UNCHANGED <<trace, it>>
            /\ pc' = "warm_loop"
    /\ UNCHANGED <<args, tokenizer, dataset, config, batches, i, examples,
                   input_ids, segment_ids, label, output, time1, metric>>

\* line 215: time1 = time.time()
StartTimer ==
    /\ pc = "timer"
    /\ time1' = Clock
    /\ Log(Ev("time", "timed", -1, NoSeq, NoSeq, NoSeq, NoSeq))
    /\ pc' = "timed_loop"
    /\ UNCHANGED <<args, tokenizer, dataset, config, batches, it, i, examples,
                   input_ids, segment_ids, label, output, metric>>

\* line 216: for batch in batches
TimedNext ==
    /\ pc = "timed_loop"
    /\ IF it < Len(TimedBatches)
       THEN /\ it' = it + 1
            /\ pc' = "timed_convert"
       ELSE /\ it' = it
            /\ pc' = "perf_report"
    /\ UNCHANGED <<args, tokenizer, dataset, config, batches, i, examples,
                   input_ids, segment_ids, label, output, time1, metric, trace>>

\* lines 217-218: self.convert_predict_batch(args, batch, ...), result dropped
TimedConvert ==
    /\ pc = "timed_convert"
    /\ convert_predict_batch(args, TimedBatches[it]) # <<>>
    /\ Log(Ev("convert", "timed", it - 1, NoSeq, NoSeq, NoSeq, NoSeq))
    /\ pc' = "timed_batchify"
    /\ UNCHANGED <<args, tokenizer, dataset, config, batches, it, i, examples,
                   input_ids, segment_ids, label, output, time1, metric>>

\* line 219: input_ids, segment_ids, _ = batchify_fn(examples)
\* (`examples` is whatever the warmup loop assigned last)
TimedBatchify ==
    /\ pc = "timed_batchify"
    /\ IF examples = <<>>
       THEN /\ pc' = "NameError"
            /\ UNCHANGED <<input_ids, segment_ids, trace>>
       ELSE /\ input_ids' = batchify_fn(tokenizer, examples)[1]
            /\ segment_ids' = batchify_fn(tokenizer, examples)[2]
            /\ Log(Ev("batchify", "timed", it - 1, input_ids', segment_ids',
                      batchify_fn(tokenizer, examples)[3], NoSeq))
            /\ pc' = "timed_run"
    /\ UNCHANGED <<args, tokenizer, dataset, config, batches, it, i, examples,
                   label, output, time1, metric>>

\* line 220: output = self.predict_batch([input_ids, segment_ids])
TimedRun ==
    /\ pc = "timed_run"
    /\ output' = ModelForward(input_ids, segment_ids)
    /\ Log(Ev("run", "timed", it - 1, input_ids, segment_ids, NoSeq, output'))
    /\ pc' = "timed_loop"
    /\ UNCHANGED <<args, tokenizer, dataset, config, batches, it, i, examples,
                   input_ids, segment_ids, label, time1, metric>>

\* variant: no else, the accuracy path follows the time report
PerfReport_FallThrough ==
    /\ pc = "perf_report"
    /\ Log(Ev("print", "time", Clock - time1, NoSeq, NoSeq, NoSeq,
              <<args.task_name>>))
    /\ pc' = "metric_new"
    /\ UNCHANGED <<args, tokenizer, dataset, config, batches, it, i, examples,
                   input_ids, segment_ids, label, output, time1, metric>>

\* lines 222-223: print("task name: %s, time: %s, " % (..., time.time() - time1))
PerfReport ==
    /\ pc = "perf_report"
    /\ Log(Ev("print", "time", Clock - time1, NoSeq, NoSeq, NoSeq,
              <<args.task_name>>))
    /\ pc' = "done"
    /\ UNCHANGED <<args, tokenizer, dataset, config, batches, it, i, examples,
                   input_ids, segment_ids, label, output, time1, metric>>

\* line 226: metric = METRIC_CLASSES[args.task_name]()
MetricNew ==
    /\ pc = "metric_new"
    /\ metric' = [metric EXCEPT !.made = @ + 1]
    /\ Log(Ev("metric_new", "acc", -1, NoSeq, NoSeq, NoSeq, NoSeq))
    /\ pc' = "metric_reset"
    /\ UNCHANGED <<args, tokenizer, dataset, config, batches, it, i, examples,
                   input_ids, segment_ids, label, output, time1>>

\* line 227: metric.reset()
MetricReset ==
    /\ pc = "metric_reset"
    /\ metric' = [metric EXCEPT !.resets = @ + 1, !.updates = <<>>]
    /\ Log(Ev("reset", "acc", -1, NoSeq, NoSeq, NoSeq, NoSeq))
    /\ pc' = "acc_loop"
    /\ UNCHANGED <<args, tokenizer, dataset, config, batches, it, i, examples,
                   input_ids, segment_ids, label, output, time1>>

\* line 228: for i, batch in enumerate(batches)
AccNext ==
    /\ pc = "acc_loop"
    /\ IF it < Len(batches)
       THEN /\ i' = it
            /\ it' = it + 1
            /\ pc' = "acc_convert"
       ELSE /\ i' = i
            /\ it' = it
            /\ pc' = "acc_accumulate"
    /\ UNCHANGED <<args, tokenizer, dataset, config, batches, examples, input_ids,
                   segment_ids, label, output, time1, metric, trace>>

\* lines 229-230: examples = self.convert_predict_batch(args, batch, ...)
AccConvert ==
    /\ pc = "acc_convert"
    /\ examples' = convert_predict_batch(args, batches[i + 1])
    /\ Log(Ev("convert", "acc", i, NoSeq, NoSeq, NoSeq, NoSeq))
    /\ pc' = "acc_batchify"
    /\ UNCHANGED <<args, tokenizer, dataset, config, batches, it, i, input_ids,
                   segment_ids, label, output, time1, metric>>

\* variant: the metric is updated without invoking the engine first
AccBatchify_SkipRun ==
    /\ pc = "acc_batchify"
    /\ input_ids' = batchify_fn(tokenizer, examples)[1]
    /\ segment_ids' = batchify_fn(tokenizer, examples)[2]
    /\ label' = batchify_fn(tokenizer, examples)[3]
    /\ Log(Ev("batchify", "acc", i, input_ids', segment_ids', label', NoSeq))
    /\ pc' = "acc_update"
    /\ UNCHANGED <<args, tokenizer, dataset, config, batches, it, i, examples,
                   output, time1, metric>>

\* line 231: input_ids, segment_ids, label = batchify_fn(examples)
AccBatchify ==
    /\ pc = "acc_batchify"
    /\ input_ids' = batchify_fn(tokenizer, examples)[1]
    /\ segment_ids' = batchify_fn(tokenizer, examples)[2]
    /\ label' = batchify_fn(tokenizer, examples)[3]
    /\ Log(Ev("batchify", "acc", i, input_ids', segment_ids', label', NoSeq))
    /\ pc' = "acc_run"
    /\ UNCHANGED <<args, tokenizer, dataset, config, batches, it, i, examples,
                   output, time1, metric>>

\* line 232: output = self.predict_batch([input_ids, segment_ids])
AccRun ==
    /\ pc = "acc_run"
    /\ output' = ModelForward(input_ids, segment_ids)
    /\ Log(Ev("run", "acc", i, input_ids, segment_ids, NoSeq, output'))
    /\ pc' = "acc_update"
    /\ UNCHANGED <<args, tokenizer, dataset, config, batches, it, i, examples,
                   input_ids, segment_ids, label, time1, metric>>

\* variant: a short last batch is left out of the metric
AccUpdate_SkipPartial ==
    /\ pc = "acc_update"
    /\ IF Len(label) = args.batch_size
       THEN /\ metric' = [metric EXCEPT !.updates = Append(@, <<output, label>>)]
            /\ Log(Ev("update", "acc", i, NoSeq, NoSeq, label, output))
       ELSE UNCHANGED <<metric, trace>>
    /\ pc' = "acc_loop"
    /\ UNCHANGED <<args, tokenizer, dataset, config, batches, it, i, examples,
                   input_ids, segment_ids, label, output, time1>>

\* lines 233-235: correct = metric.compute(output, label); metric.update(correct)
AccUpdate ==
    /\ pc = "acc_update"
    /\ metric' = [metric EXCEPT !.updates = Append(@, <<output, label>>)]
    /\ Log(Ev("update", "acc", i, NoSeq, NoSeq, label, output))
    /\ pc' = "acc_loop"
    /\ UNCHANGED <<args, tokenizer, dataset, config, batches, it, i, examples,
                   input_ids, segment_ids, label, output, time1>>

\* line 237: res = metric.accumulate()
AccAccumulate ==
    /\ pc = "acc_accumulate"
    /\ metric' = [metric EXCEPT !.reads = @ + 1]
    /\ Log(Ev("accumulate", "acc", Len(metric.updates), NoSeq, NoSeq, NoSeq, NoSeq))
    /\ pc' = "acc_report"
    /\ UNCHANGED <<args, tokenizer, dataset, config, batches, it, i, examples,
                   input_ids, segment_ids, label, output, time1>>

\* line 238: print("task name: %s, acc: %s, " % (args.task_name, res), end='')
AccReport ==
    /\ pc = "acc_report"
    /\ Log(Ev("print", "acc", -1, NoSeq, NoSeq, NoSeq, <<args.task_name>>))
    /\ pc' = "done"
    /\ UNCHANGED <<args, tokenizer, dataset, config, batches, it, i, examples,
                   input_ids, segment_ids, label, output, time1, metric>>

Next ==
    \/ Slice
    \/ WarmupNext \/ WarmupConvert \/ WarmupBatchify \/ WarmupRun \/ WarmupCheck
    \/ StartTimer
    \/ TimedNext \/ TimedConvert \/ TimedBatchify \/ TimedRun
    \/ PerfReport
    \/ MetricNew \/ MetricReset
    \/ AccNext \/ AccConvert \/ AccBatchify \/ AccRun \/ AccUpdate
    \/ AccAccumulate \/ AccReport

Spec == Init /\ [][Next]_vars

\* ======================================================= properties
RECURSIVE Flatten(_)
Flatten(ss) == IF ss = <<>> THEN <<>> ELSE Head(ss) \o Flatten(Tail(ss))

CeilDiv(n, b) == (n + b - 1) \div b

NumBatches == CeilDiv(Len(dataset), args.batch_size)

\* positions of the trace holding an event of this kind
Pos(op, phase) == {p \in 1..Len(trace) : trace[p].op = op /\ trace[p].phase = phase}

PosOp(op) == {p \in 1..Len(trace) : trace[p].op = op}

\* the events of this kind, in order
Events(op, phase) ==
    SelectSeq(trace, LAMBDA e : e.op = op /\ e.phase = phase)

\* what batch k (0-based) of the dataset encodes to
Encoded(k) == batchify_fn(tokenizer, convert_predict_batch(args, batches[k + 1]))

Sliced == pc # "predict"

\* C1: the dataset is cut into ceil(N/B) batches, all of size B except a last
\* one of size 1..B, and the batches concatenated are the dataset.
C1_Batching ==
    Sliced =>
        /\ Len(batches) = NumBatches
        /\ \A k \in 1..Len(batches) :
              /\ k < Len(batches) => Len(batches[k]) = args.batch_size
              /\ Len(batches[k]) >= 1
              /\ Len(batches[k]) <= args.batch_size
        /\ Flatten(batches) = dataset

C1_Witness ==
    /\ Sliced
    /\ Len(batches) >= 2
    /\ args.batch_size >= 2
    /\ Len(batches[Len(batches)]) < args.batch_size

\* C2: accuracy mode invokes the engine once per batch in batch order, resets
\* the metric once before the first batch, updates it once per batch with that
\* batch's output and labels, and reads the score once after the last update.
C2_AccuracyPass ==
    ~args.perf =>
        /\ Cardinality(PosOp("reset")) <= 1
        /\ Cardinality(PosOp("accumulate")) <= 1
        /\ \A p \in PosOp("convert") \cup PosOp("update") :
              \E q \in PosOp("reset") : q < p
        /\ \A p \in PosOp("accumulate") : \A q \in PosOp("update") : q < p
        /\ \A n \in 1..Len(Events("run", "acc")) :
              /\ Events("run", "acc")[n].k = n - 1
              /\ Events("run", "acc")[n].ids = Encoded(n - 1)[1]
              /\ Events("run", "acc")[n].segs = Encoded(n - 1)[2]
        /\ \A n \in 1..Len(Events("update", "acc")) :
              /\ n <= Len(Events("run", "acc"))
              /\ Events("update", "acc")[n].out = Events("run", "acc")[n].out
              /\ Events("update", "acc")[n].lab =
                    [e \in 1..Len(batches[n]) |-> batches[n][e].label]
        /\ metric.updates =
              [n \in 1..Len(Events("update", "acc")) |->
                  <<Events("update", "acc")[n].out, Events("update", "acc")[n].lab>>]
        /\ pc = "done" =>
              /\ Len(Events("run", "acc")) = NumBatches
              /\ Len(Events("update", "acc")) = NumBatches
              /\ Cardinality(PosOp("reset")) = 1
              /\ Cardinality(PosOp("accumulate")) = 1
              /\ metric.resets = 1
              /\ metric.reads = 1

C2_Witness ==
    /\ ~args.perf
    /\ pc = "done"
    /\ Len(batches) >= 3
    /\ Len(metric.updates) = Len(batches)

\* C3 (as claimed): the k-th engine invocation of the timed pass receives the
\* tensors encoded from the k-th batch of the dataset.
C3_TimedPassFreshData ==
    \A p \in Pos("run", "timed") :
        /\ trace[p].ids = Encoded(trace[p].k)[1]
        /\ trace[p].segs = Encoded(trace[p].k)[2]

TimerStarted == time1 # -1

\* C4 (as claimed): with more batches than perf_warmup_steps, exactly
\* perf_warmup_steps engine invocations precede the start of the timer.
C4_WarmupCount ==
    (args.perf /\ TimerStarted /\ Len(batches) > args.perf_warmup_steps) =>
        Len(Events("run", "warmup")) = args.perf_warmup_steps

MetricOps == {"metric_new", "reset", "update", "accumulate"}

\* C5: exactly one of the two paths runs, fixed by args.perf: the timing path
\* never touches a metric and ends with a time report, the accuracy path never
\* starts a timer or a warmup pass and ends with an accuracy report.
C5_OnePath ==
    /\ args.perf =>
          /\ metric = NoMetric
          /\ \A p \in 1..Len(trace) :
                /\ trace[p].op \notin MetricOps
                /\ trace[p].phase \in {"warmup", "timed", "time"}
          /\ pc = "done" =>
                /\ TimerStarted
                /\ Cardinality(PosOp("print")) = 1
                /\ trace[Len(trace)] = Ev("print", "time", Clock - 1 - time1, NoSeq,
                                          NoSeq, NoSeq, <<args.task_name>>)
    /\ ~args.perf =>
          /\ ~TimerStarted
          /\ \A p \in 1..Len(trace) : trace[p].phase = "acc"
          /\ pc = "done" =>
                /\ metric.made = 1
                /\ Cardinality(PosOp("print")) = 1
                /\ trace[Len(trace)] = Ev("print", "acc", -1, NoSeq, NoSeq, NoSeq,
                                          <<args.task_name>>)
    /\ ~(TimerStarted /\ metric # NoMetric)
    /\ pc = "done" => (TimerStarted \/ metric # NoMetric)

C5_Witness == args.perf /\ pc = "done" /\ Len(batches) >= 2

\* C6: with perf_warmup_steps >= the number of batches the warmup loop runs
\* every batch once, never breaks, and the timed pass still starts and runs.
C6_WarmupExhausts ==
    (args.perf /\ Sliced /\ args.perf_warmup_steps >= Len(batches)) =>
        /\ PosOp("break") = {}
        /\ \A n \in 1..Len(Events("run", "warmup")) :
              Events("run", "warmup")[n].k = n - 1
        /\ TimerStarted => Len(Events("run", "warmup")) = Len(batches)
        /\ pc = "done" =>
              /\ TimerStarted
              /\ Len(Events("run", "timed")) = Len(batches)

C6_Witness ==
    /\ args.perf
    /\ pc = "done"
    /\ Len(batches) >= 1
    /\ args.perf_warmup_steps = Len(batches)

Count(name) == Cardinality({c \in 1..Len(config) : config[c].call = name})

CallsOf(name) == SelectSeq(config, LAMBDA c : c.call = name)

ShapeFile == Join(Dirname(args.model_path),
                  <<args.task_name, "_shape_range_info.pbtxt">>)

ShapeConfigured == pc \in {"cp_create", "cp_done"}

\* C7: with use_trt exactly one of shape collection / tuned dynamic shape is
\* configured (collection iff collect_shape), on the file
\* <dirname(model_path)>/<task_name>_shape_range_info.pbtxt, with exactly one
\* TensorRT enable call (Int8 iff int8, else Float32); without use_trt none of
\* the three calls is made.
C7_EngineBuilder ==
    /\ Count("enable_tensorrt_engine") <= 1
    /\ Count("collect_shape_range_info") + Count("enable_tuned_tensorrt_dynamic_shape") <= 1
    /\ ~args.use_trt =>
          /\ Count("enable_tensorrt_engine") = 0
          /\ Count("collect_shape_range_info") = 0
          /\ Count("enable_tuned_tensorrt_dynamic_shape") = 0
    /\ (args.use_trt /\ ShapeConfigured) =>
          /\ Count("enable_tensorrt_engine") = 1
          /\ CallsOf("enable_tensorrt_engine")[1].prec =
                (IF args.int8 THEN "Int8" ELSE "Float32")
          /\ Count("collect_shape_range_info") = (IF args.collect_shape THEN 1 ELSE 0)
          /\ Count("enable_tuned_tensorrt_dynamic_shape") =
                (IF args.collect_shape THEN 0 ELSE 1)
          /\ \A c \in 1..Len(config) :
                config[c].call \in {"collect_shape_range_info",
                                    "enable_tuned_tensorrt_dynamic_shape"}
                    => config[c].path = ShapeFile
          /\ args.task_name \in {"afqmc", "tnews"}

C7_Witness ==
    /\ pc = "cp_done"
    /\ args.use_trt
    /\ args.collect_shape
    /\ args.int8
    /\ Count("collect_shape_range_info") = 1
    /\ Len(args.model_path) = 2

\* the slice whose converted examples the local `examples` holds: the one the
\* last enumerate step bound (in the timed pass that is the last warmup slice)
EncodedSource == batches[i + 1]

TruncLen(ex) == Min(ex.n, args.max_seq_length)

BatchLen(src) == SeqMax([e \in 1..Len(src) |-> TruncLen(src[e])])

AboutToRun == pc \in {"warm_run", "timed_run", "acc_run"}

\* C8: in every encoded batch handed to the engine all token-id and segment-id
\* rows have one length, the largest truncated length among the examples
\* encoded (at most max_seq_length), shorter rows being filled with the
\* tokenizer's pad-token id / pad-segment-type id.
C8_Padding ==
    /\ AboutToRun =>
          /\ Len(input_ids) = Len(EncodedSource)
          /\ Len(segment_ids) = Len(EncodedSource)
          /\ BatchLen(EncodedSource) <= args.max_seq_length
          /\ \A r \in 1..Len(EncodedSource) :
                /\ Len(input_ids[r]) = BatchLen(EncodedSource)
                /\ Len(segment_ids[r]) = BatchLen(EncodedSource)
                /\ \A j \in 1..BatchLen(EncodedSource) :
                      IF j <= TruncLen(EncodedSource[r])
                      THEN /\ input_ids[r][j] = RawTokens(EncodedSource[r])[j]
                           /\ segment_ids[r][j] = RawSegments(EncodedSource[r])[j]
                      ELSE /\ input_ids[r][j] = tokenizer.pad_token_id
                           /\ segment_ids[r][j] = tokenizer.pad_token_type_id
    /\ \A p \in PosOp("run") :
          /\ trace[p - 1].op = "batchify"
          /\ trace[p].ids = trace[p - 1].ids
          /\ trace[p].segs = trace[p - 1].segs
          /\ \A r \in 1..Len(trace[p].ids) :
                /\ Len(trace[p].ids[r]) = Len(trace[p].ids[1])
                /\ Len(trace[p].segs[r]) = Len(trace[p].ids[1])
                /\ Len(trace[p].ids[r]) <= args.max_seq_length

\* a batch of two or more rows with a truncated example and a padded row
C8_Witness ==
    /\ AboutToRun
    /\ \E r \in 1..Len(EncodedSource) : EncodedSource[r].n > args.max_seq_length
    /\ \E r \in 1..Len(EncodedSource) :
          TruncLen(EncodedSource[r]) < BatchLen(EncodedSource)
    /\ Len(input_ids) >= 2
    /\ tokenizer.pad_token_id # tokenizer.pad_token_type_id

\* C9: the timer starts after every warmup invocation and before every timed
\* one, the timed pass invokes the engine once per batch whatever
\* perf_warmup_steps is, and the time report follows the last timed invocation.
C9_TimingWindow ==
    args.perf =>
        /\ Cardinality(PosOp("time")) <= 1
        /\ TimerStarted <=> PosOp("time") # {}
        /\ \A t \in PosOp("time") :
              /\ time1 = t - 1
              /\ \A p \in Pos("run", "warmup") : p < t
              /\ \A p \in Pos("convert", "warmup") \cup Pos("batchify", "warmup") : p < t
              /\ \A p \in Pos("run", "timed") : p > t
              /\ \A p \in Pos("convert", "timed") : p > t
        /\ Pos("run", "timed") # {} => PosOp("time") # {}
        /\ \A n \in 1..Len(Events("run", "timed")) :
              Events("run", "timed")[n].k = n - 1
        /\ Len(Events("run", "timed")) <= NumBatches
        /\ \A p \in PosOp("print") :
              /\ Len(Events("run", "timed")) = NumBatches
              /\ \A q \in PosOp("run") \cup PosOp("time") : q < p
              /\ trace[p].k = p - 1 - time1

C9_Witness ==
    /\ args.perf
    /\ pc = "done"
    /\ Len(batches) >= 3
    /\ args.perf_warmup_steps < Len(batches)
    /\ PosOp("break") # {}
    /\ Len(Events("run", "warmup")) < Len(batches)

StepOps == {"convert", "batchify", "run", "update"}

\* C10: within a pass the steps of batch k run convert, encode, invoke
\* (then, in accuracy mode, update) back to back, nothing of batch k+1 happens
\* before batch k's invocation returned, and the report comes last.
C10_StepOrder ==
    /\ \A p \in 1..Len(trace) :
          /\ (trace[p].op = "convert" /\ p < Len(trace)) =>
                /\ trace[p + 1].op = "batchify"
                /\ trace[p + 1].phase = trace[p].phase
                /\ trace[p + 1].k = trace[p].k
          /\ (trace[p].op = "batchify" /\ p < Len(trace)) =>
                /\ trace[p + 1].op = "run"
                /\ trace[p + 1].phase = trace[p].phase
                /\ trace[p + 1].k = trace[p].k
          /\ trace[p].op = "run" =>
                /\ p >= 3
                /\ trace[p - 2].op = "convert"
                /\ trace[p - 2].phase = trace[p].phase
                /\ trace[p - 2].k = trace[p].k
          /\ (trace[p].op = "run" /\ trace[p].phase = "acc" /\ p < Len(trace)) =>
                /\ trace[p + 1].op = "update"
                /\ trace[p + 1].k = trace[p].k
          /\ trace[p].op = "update" =>
                /\ trace[p - 1].op = "run"
                /\ trace[p - 1].k = trace[p].k
          /\ (trace[p].op \in StepOps /\ trace[p].k >= 1) =>
                \E q \in 1..(p - 1) :
                    /\ trace[q].op = "run"
                    /\ trace[q].phase = trace[p].phase
                    /\ trace[q].k = trace[p].k - 1
          /\ trace[p].op = "print" =>
                /\ p = Len(trace)
                /\ pc = "done"
                /\ IF args.perf
                   THEN Len(Events("run", "timed")) = Len(batches)
                   ELSE Len(Events("update", "acc")) = Len(batches)
    /\ pc = "done" => trace[Len(trace)].op = "print"

C10_Witness ==
    /\ pc = "done"
    /\ ~args.perf
    /\ Len(batches) >= 2
    /\ Len(Events("run", "acc")) = Len(batches)

====
